---- MODULE Spec2Model ----
(***************************************************************************)
(* A model of the block file system of src/filesystem.py: the emulated     *)
(* disk, the bitmap, the descriptor table, the directory, the open file    *)
(* table and the engine's operations create, destroy, open, close, read,   *)
(* write and seek.                                                         *)
(*                                                                         *)
(* Python lists are objects: a buffer of the open file table is a          *)
(* reference to a list that may also be a block of the disk (read_block    *)
(* returns the block itself, write_block stores a copy, close stores the   *)
(* buffer itself).  The model keeps one object per alias class and names   *)
(* it by the lowest location (disk block or table slot) that refers to it. *)
(***************************************************************************)
EXTENDS Integers, Sequences, FiniteSets, TLC

VARIABLES bitmap, descriptors, directory, oft, disk, alias, stale, steps

vars == <<bitmap, descriptors, directory, oft, disk, alias, stale, steps>>

---------------------------------------------------------------------------
(* Sizes.  The source's sizes are 512 bytes a block, 64 blocks, 192        *)
(* descriptors and 64 directory entries; the model is scaled down and      *)
(* every operator is written in terms of these names.  A block stays      *)
(* longer than the index of the first data block, as 512 is longer than   *)
(* the 64 cells of the bitmap: a buffer that is the bitmap list reaches   *)
(* the bits of the data blocks.                                            *)
BlockSize == 9
NumBlocks == 11
NumDescriptors == 3
DirSlots == 2
\* the write calls draw their data from this many patterns
NumPatterns == 1
\* the number of engine calls of a run
MaxSteps == 5

\* program constants
BitmapBlock == 0
DirBlock == 7
FirstDataBlock == 8
OftSlots == 4
MaxFileBlocks == 3
MaxNameLen == 3
FreeLength == -1
ClosedPos == -1

MaxFileSize == MaxFileBlocks * BlockSize

Min(S) == CHOOSE x \in S : \A y \in S : x <= y

---------------------------------------------------------------------------
(* Objects (Python lists) and the locations that refer to them.            *)

\* a location holds a reference to a list: the blocks of the disk that
\* buffers can be read from or stored to (block 0 is the bitmap, block 7 the
\* directory, blocks 8.. the data blocks) and the buffer fields of the table
SlotLoc(h) == NumBlocks + h
DataBlocks == FirstDataBlock .. (NumBlocks - 1)
SlotLocs == NumBlocks .. (NumBlocks + OftSlots - 1)
Locs == {BitmapBlock, DirBlock} \cup DataBlocks \cup SlotLocs

ZeroCells == [i \in 0 .. (BlockSize - 1) |-> 0]
\* what the model keeps as the cells of a buffer that is the bitmap or the
\* directory itself: those cells are bitmap and directory
NoCells == << >>

DirEntry(name, d) == [isint |-> FALSE, name |-> name, desc |-> d]
\* a directory cell overwritten with a byte through a buffer that is the
\* directory list itself
IntCell(v) == [isint |-> TRUE, name |-> "", desc |-> v]

IsBitmap(fs, l) == BitmapBlock \in fs.alias[l]
IsDirectory(fs, l) == DirBlock \in fs.alias[l]

\* the cells of the list a location refers to
LocCells(fs, l) ==
    IF IsBitmap(fs, l) THEN fs.bitmap
    ELSE IF IsDirectory(fs, l) THEN fs.directory
    ELSE IF l \in DataBlocks THEN fs.disk[l]
    ELSE fs.oft[l - NumBlocks].buffer

\* len() of the list a location refers to, in the model's sizes
LocLen(fs, l) ==
    IF IsBitmap(fs, l) THEN NumBlocks ELSE IF IsDirectory(fs, l) THEN DirSlots ELSE BlockSize

\* the cells kept at location l when it refers to a list with these cells
SetCells(fs, l, cells) ==
    IF l \in DataBlocks THEN [fs EXCEPT !.disk[l] = cells]
    ELSE IF l \in SlotLocs THEN [fs EXCEPT !.oft[l - NumBlocks].buffer = cells]
    ELSE fs

\* location l takes a reference to a list just built (no other reference)
Fresh(fs, l, cells) ==
    SetCells([fs EXCEPT !.alias = [m \in Locs |->
                                     IF m = l THEN {l}
                                     ELSE IF m \in fs.alias[l] THEN fs.alias[l] \ {l}
                                     ELSE fs.alias[m]]],
             l, cells)

\* location l takes the reference location src holds
Bind(fs, l, src) ==
    IF l \in fs.alias[src] THEN fs
    ELSE SetCells([fs EXCEPT !.alias = [m \in Locs |->
                                          IF m = l \/ m \in fs.alias[src] THEN fs.alias[src] \cup {l}
                                          ELSE IF m \in fs.alias[l] THEN fs.alias[l] \ {l}
                                          ELSE fs.alias[m]]],
                  l,
                  IF IsBitmap(fs, src) \/ IsDirectory(fs, src) THEN NoCells ELSE LocCells(fs, src))

\* list[i] = v on the list location l refers to: every location that refers
\* to the same list sees it
Store(fs, l, i, v) ==
    IF IsBitmap(fs, l) THEN [fs EXCEPT !.bitmap[i] = v]
    ELSE IF IsDirectory(fs, l) THEN [fs EXCEPT !.directory[i] = IntCell(v)]
    ELSE [fs EXCEPT
            !.disk = [b \in DataBlocks |->
                         IF b \in fs.alias[l] THEN [fs.disk[b] EXCEPT ![i] = v] ELSE fs.disk[b]],
            !.oft = [h \in 0 .. (OftSlots - 1) |->
                         IF SlotLoc(h) \in fs.alias[l]
                         THEN [fs.oft[h] EXCEPT !.buffer[i] = v]
                         ELSE fs.oft[h]]]

\* the result of a call: the state it leaves, the value it returns, the
\* exception it raises ("none" when it returns) and the memory area of read
NoRet == -2
Result(fs, ret) == [fs |-> fs, ret |-> ret, exc |-> "none", dest |-> << >>]
Raise(fs, exc) == [fs |-> fs, ret |-> NoRet, exc |-> exc, dest |-> << >>]

---------------------------------------------------------------------------
(* EmulatedDisk                                                            *)

\* return self.disk[block_index]: the list itself, named by its location
read_block(fs, block_index) == block_index

\* len(data) != 512: the bitmap and the directory are lists of 64 cells,
\* every other list a buffer can be has 512
write_block_size_ok(fs, l) == (IF IsBitmap(fs, l) \/ IsDirectory(fs, l) THEN 64 ELSE 512) = 512

\* self.disk[block_index] = list(data), for data of 512 bytes
write_block(fs, block_index, l) == Fresh(fs, block_index, LocCells(fs, l))

---------------------------------------------------------------------------
(* FileSystem                                                              *)

FS == [bitmap |-> bitmap, descriptors |-> descriptors, directory |-> directory,
       oft |-> oft, disk |-> disk, alias |-> alias]

ClosedEntry(buf) == [buffer |-> buf, current_pos |-> ClosedPos, file_size |-> 0, descriptor_index |-> 0]

InitFS ==
    [bitmap |-> [i \in 0 .. (NumBlocks - 1) |-> IF i < FirstDataBlock THEN 1 ELSE 0],
     descriptors |-> [d \in 0 .. (NumDescriptors - 1) |->
                         IF d = 0 THEN <<0, DirBlock, 0, 0>> ELSE <<FreeLength, 0, 0, 0>>],
     directory |-> [i \in 0 .. (DirSlots - 1) |-> DirEntry("", 0)],
     oft |-> [h \in 0 .. (OftSlots - 1) |->
                 IF h = 0
                 THEN [buffer |-> NoCells, current_pos |-> 0, file_size |-> 0, descriptor_index |-> 0]
                 ELSE ClosedEntry(ZeroCells)],
     disk |-> [b \in DataBlocks |-> ZeroCells],
     alias |-> [l \in Locs |-> IF l \in {DirBlock, SlotLoc(0)} THEN {DirBlock, SlotLoc(0)} ELSE {l}]]

\* for entry in self.directory: if entry[0] == filename: ... break
\* the index of the first cell that stops the scan, or -1
dir_scan(fs, filename) ==
    LET hits == {i \in DOMAIN fs.directory :
                    fs.directory[i].isint \/ fs.directory[i].name = filename}
    IN IF hits = {} THEN -1 ELSE Min(hits)

\* the scan met a cell that is no [name, index] pair: entry[0] raises
dir_scan_raises(fs, filename) ==
    dir_scan(fs, filename) # -1 /\ fs.directory[dir_scan(fs, filename)].isint

find_free_descriptor(fs) ==
    LET free == {d \in DOMAIN fs.descriptors : fs.descriptors[d][1] = FreeLength}
    IN IF free = {} THEN -1 ELSE Min(free)

\* a variant that takes the highest free block
find_free_block_highest(fs) ==
    LET free == {i \in FirstDataBlock .. (NumBlocks - 1) : fs.bitmap[i] = 0}
    IN IF free = {} THEN -1 ELSE CHOOSE x \in free : \A y \in free : y <= x

find_free_block(fs) ==
    LET free == {i \in FirstDataBlock .. (NumBlocks - 1) : fs.bitmap[i] = 0}
    IN IF free = {} THEN -1 ELSE Min(free)

create(fs, filename) ==
    IF Len(filename) > MaxNameLen THEN Result(fs, -1)
    ELSE IF dir_scan_raises(fs, filename) THEN Raise(fs, "TypeError")
    ELSE IF dir_scan(fs, filename) # -1 THEN Result(fs, -1)
    ELSE LET dir_index == dir_scan(fs, "")
             desc_index == find_free_descriptor(fs)
             block_num == find_free_block(fs)
         IN IF dir_index = -1 THEN Result(fs, -1)
            ELSE IF desc_index = -1 THEN Result(fs, -1)
            ELSE IF block_num = -1 THEN Result(fs, -1)
            ELSE Result([fs EXCEPT !.bitmap[block_num] = 1,
                                   !.descriptors[desc_index] = <<0, block_num, 0, 0>>,
                                   !.directory[dir_index] = DirEntry(filename, desc_index)], 0)

\* for block_num in descriptor[1:4]: if block_num != 0: self.bitmap[block_num] = 0
free_blocks(bm, descriptor) ==
    [i \in DOMAIN bm |->
        IF i # 0 /\ (descriptor[2] = i \/ descriptor[3] = i \/ descriptor[4] = i) THEN 0 ELSE bm[i]]

destroy(fs, filename) ==
    IF dir_scan_raises(fs, filename) THEN Raise(fs, "TypeError")
    ELSE LET dir_index == dir_scan(fs, filename)
         IN IF dir_index = -1 THEN Result(fs, -1)
            ELSE LET desc_index == fs.directory[dir_index].desc
                 IN Result([fs EXCEPT !.bitmap = free_blocks(fs.bitmap, fs.descriptors[desc_index]),
                                      !.descriptors[desc_index] = <<FreeLength, 0, 0, 0>>,
                                      !.directory[dir_index] = DirEntry("", 0)], 0)

\* a variant that scans range(1, 4), as the search for a free entry does
already_open_from_1(fs, desc_index) ==
    \E i \in 1 .. (OftSlots - 1) :
        fs.oft[i].descriptor_index = desc_index /\ fs.oft[i].current_pos # ClosedPos

\* for i in range(4): descriptor_index == desc_index and current_pos != -1
already_open(fs, desc_index) ==
    \E i \in 0 .. (OftSlots - 1) :
        fs.oft[i].descriptor_index = desc_index /\ fs.oft[i].current_pos # ClosedPos

\* for i in range(1, 4): if current_pos == -1: oft_index = i; break
find_free_oft(fs) ==
    LET free == {i \in 1 .. (OftSlots - 1) : fs.oft[i].current_pos = ClosedPos}
    IN IF free = {} THEN -1 ELSE Min(free)

open(fs, filename) ==
    IF dir_scan_raises(fs, filename) THEN Raise(fs, "TypeError")
    ELSE LET dir_index == dir_scan(fs, filename)
         IN IF dir_index = -1 THEN Result(fs, -1)
            ELSE LET desc_index == fs.directory[dir_index].desc
                     oft_index == find_free_oft(fs)
                     descriptor == fs.descriptors[desc_index]
                 IN IF already_open(fs, desc_index) THEN Result(fs, -1)
                    ELSE IF oft_index = -1 THEN Result(fs, -1)
                    ELSE Result(Bind([fs EXCEPT !.oft[oft_index] =
                                         [buffer |-> fs.oft[oft_index].buffer,
                                          current_pos |-> 0,
                                          file_size |-> descriptor[1],
                                          descriptor_index |-> desc_index]],
                                     SlotLoc(oft_index), read_block(fs, descriptor[2])), oft_index)

\* index < 0 or index > 3 or self.oft[index]["current_pos"] == -1
bad_handle(fs, index) ==
    index < 0 \/ index > OftSlots - 1 \/ fs.oft[index].current_pos = ClosedPos

\* descriptor[1 + block_index] of a four element list raises IndexError
block_field_raises(block_index) == 1 + block_index > MaxFileBlocks

\* descriptor[1 + block_index]
block_field(descriptor, block_index) == descriptor[2 + block_index]

\* self.oft[index]["buffer"] = r
set_buffer(fs, index, l) == Bind(fs, SlotLoc(index), l)

\* self.oft[index] = {"buffer": [0] * 512, "current_pos": -1, ...}
release(fs, index) ==
    Fresh([fs EXCEPT !.oft[index] = ClosedEntry(ZeroCells)], SlotLoc(index), ZeroCells)

\* current_block_index = self.oft[index]["current_pos"] // 512
close_block_index(current_pos) == current_pos \div BlockSize

close(fs, index) ==
    IF bad_handle(fs, index) THEN Result(fs, -1)
    ELSE LET descriptor == fs.descriptors[fs.oft[index].descriptor_index]
             current_block_index == close_block_index(fs.oft[index].current_pos)
         IN IF block_field_raises(current_block_index) THEN Raise(fs, "IndexError")
            ELSE LET current_block == block_field(descriptor, current_block_index)
                     fs1 == IF current_block # 0
                            THEN Bind(fs, current_block, SlotLoc(index))
                            ELSE fs
                 IN Result(release(fs1, index), 0)

\* the block loaded before the first byte of a read: current_block_index > 0
\* and bytes_read == 0
read_reloads(current_block_index, bytes_read) == current_block_index > 0 /\ bytes_read = 0

\* one pass of the body of a loop: the result so far, and whether the loop
\* goes on to another pass
Pass(r, more) == [fs |-> r.fs, ret |-> r.ret, exc |-> r.exc, dest |-> r.dest, more |-> more]

\* one pass of: while bytes_read < count
read_pass(fs, index, count, bytes_read, dest) ==
    LET e == fs.oft[index]
        descriptor == fs.descriptors[e.descriptor_index]
        done == [fs |-> fs, ret |-> bytes_read, exc |-> "none", dest |-> dest]
    IN IF e.current_pos >= descriptor[1] THEN Pass(done, FALSE)
       ELSE LET current_block_index == e.current_pos \div BlockSize
                buffer_pos == e.current_pos % BlockSize
                reload == read_reloads(current_block_index, bytes_read)
            IN IF reload /\ block_field_raises(current_block_index)
               THEN Pass([fs |-> fs, ret |-> NoRet, exc |-> "IndexError", dest |-> dest], FALSE)
               ELSE LET fs1 == IF reload /\ block_field(descriptor, current_block_index) # 0
                               THEN set_buffer(fs, index,
                                        read_block(fs, block_field(descriptor, current_block_index)))
                               ELSE fs
                        buf == SlotLoc(index)
                    IN IF buffer_pos >= LocLen(fs1, buf)
                       THEN Pass([fs |-> fs1, ret |-> NoRet, exc |-> "IndexError", dest |-> dest], FALSE)
                       ELSE LET dest1 == [dest EXCEPT ![bytes_read + 1] = LocCells(fs1, buf)[buffer_pos]]
                                n == bytes_read + 1
                                pos == e.current_pos + 1
                                fs2 == [fs1 EXCEPT !.oft[index].current_pos = pos]
                                next_block_index == pos \div BlockSize
                            IN IF pos % BlockSize = 0 /\ n < count
                               THEN IF next_block_index < MaxFileBlocks
                                    THEN IF block_field(descriptor, next_block_index) # 0
                                         THEN Pass([fs |-> set_buffer(fs2, index,
                                                       read_block(fs2, block_field(descriptor, next_block_index))),
                                                    ret |-> n, exc |-> "none", dest |-> dest1], TRUE)
                                         ELSE Pass([fs |-> fs2, ret |-> n, exc |-> "none", dest |-> dest1], FALSE)
                                    ELSE Pass([fs |-> fs2, ret |-> n, exc |-> "none", dest |-> dest1], FALSE)
                               ELSE Pass([fs |-> fs2, ret |-> n, exc |-> "none", dest |-> dest1], TRUE)

RECURSIVE read_loop(_, _, _, _, _)
read_loop(fs, index, count, bytes_read, dest) ==
    IF bytes_read >= count THEN [fs |-> fs, ret |-> bytes_read, exc |-> "none", dest |-> dest]
    ELSE LET s == read_pass(fs, index, count, bytes_read, dest)
         IN IF s.more THEN read_loop(s.fs, index, count, s.ret, s.dest)
            ELSE [fs |-> s.fs, ret |-> s.ret, exc |-> s.exc, dest |-> s.dest]

\* mem_area is a list of count zeros, as the shell passes it
read(fs, index, count) ==
    IF bad_handle(fs, index) THEN Result(fs, -1)
    ELSE read_loop(fs, index, count, 0, [i \in 1 .. count |-> 0])

\* if buffer_pos == 0 and current_block_index > 0
needs_new_block(descriptor, buffer_pos, current_block_index) ==
    buffer_pos = 0 /\ current_block_index > 0

\* if buffer_pos == 511 or bytes_written == count
flush_due(buffer_pos, bytes_written, count) ==
    buffer_pos = BlockSize - 1 \/ bytes_written = count

\* a variant that is one byte short
new_length_short(length, current_pos) == IF current_pos > length THEN current_pos - 1 ELSE length

\* if current_pos > descriptor[0]: descriptor[0] = current_pos
new_length(length, current_pos) == IF current_pos > length THEN current_pos ELSE length

\* descriptor[1 + current_block_index] = new_block; self.bitmap[new_block] = 1;
\* self.oft[index]["buffer"] = [0] * 512
allocate(fs, index, current_block_index, new_block) ==
    Fresh([fs EXCEPT
              !.descriptors[fs.oft[index].descriptor_index][2 + current_block_index] = new_block,
              !.bitmap[new_block] = 1],
          SlotLoc(index), ZeroCells)

\* one pass of: while bytes_written < count
write_pass(fs, index, mem_area, count, bytes_written) ==
    LET e == fs.oft[index]
        desc_index == e.descriptor_index
        current_block_index == e.current_pos \div BlockSize
        buffer_pos == e.current_pos % BlockSize
        new_block == find_free_block(fs)
        grow == needs_new_block(fs.descriptors[desc_index], buffer_pos, current_block_index)
    IN IF current_block_index >= MaxFileBlocks THEN Pass(Result(fs, bytes_written), FALSE)
       ELSE IF grow /\ new_block = -1 THEN Pass(Result(fs, bytes_written), FALSE)
       ELSE LET fs1 == IF grow THEN allocate(fs, index, current_block_index, new_block) ELSE fs
                buf == SlotLoc(index)
            IN IF buffer_pos >= LocLen(fs1, buf) THEN Pass(Raise(fs1, "IndexError"), FALSE)
               ELSE LET n == bytes_written + 1
                        pos == e.current_pos + 1
                        fs2 == [Store(fs1, buf, buffer_pos, mem_area[bytes_written])
                                   EXCEPT !.oft[index].current_pos = pos]
                        block_num == block_field(fs2.descriptors[desc_index], current_block_index)
                        flush == flush_due(buffer_pos, n, count) /\ block_num # 0
                    IN IF flush /\ ~write_block_size_ok(fs2, buf) THEN Pass(Raise(fs2, "ValueError"), FALSE)
                       ELSE LET fs3 == IF flush THEN write_block(fs2, block_num, buf) ELSE fs2
                                fs4 == [fs3 EXCEPT !.descriptors[desc_index][1] =
                                           new_length(fs3.descriptors[desc_index][1], pos)]
                            IN Pass(Result(fs4, n), TRUE)

RECURSIVE write_loop(_, _, _, _, _)
write_loop(fs, index, mem_area, count, bytes_written) ==
    IF bytes_written >= count THEN Result(fs, bytes_written)
    ELSE LET s == write_pass(fs, index, mem_area, count, bytes_written)
         IN IF s.more THEN write_loop(s.fs, index, mem_area, count, s.ret)
            ELSE [fs |-> s.fs, ret |-> s.ret, exc |-> s.exc, dest |-> s.dest]

write(fs, index, mem_area, count) ==
    IF bad_handle(fs, index) THEN Result(fs, -1)
    ELSE write_loop(fs, index, mem_area, count, 0)

\* a range check that also refuses the end of the file
seek_out_of_range_strict(descriptor, pos) == pos < 0 \/ pos >= descriptor[1]

\* if pos < 0 or pos > descriptor[0]
seek_out_of_range(descriptor, pos) == pos < 0 \/ pos > descriptor[1]

seek(fs, index, pos) ==
    IF bad_handle(fs, index) THEN Result(fs, -1)
    ELSE LET descriptor == fs.descriptors[fs.oft[index].descriptor_index]
             new_block_index == pos \div BlockSize
         IN IF seek_out_of_range(descriptor, pos) THEN Result(fs, -1)
            ELSE IF new_block_index < MaxFileBlocks
                 THEN IF block_field(descriptor, new_block_index) # 0
                      THEN Result([set_buffer(fs, index, read_block(fs, block_field(descriptor, new_block_index)))
                                      EXCEPT !.oft[index].current_pos = pos], pos)
                      ELSE Result(fs, -1)
                 ELSE Result(fs, -1)

\* for entry in self.directory: if entry[0] != "": append (entry[0], length)
\* the value returned is the list of pairs, in directory order
list_directory(fs) ==
    IF \E i \in DOMAIN fs.directory : fs.directory[i].isint THEN Raise(fs, "TypeError")
    ELSE Result(fs, [i \in {j \in DOMAIN fs.directory : fs.directory[j].name # ""} |->
                        <<fs.directory[i].name, fs.descriptors[fs.directory[i].desc][1]>>])

---------------------------------------------------------------------------
(* The calls a run draws from.                                             *)
Names == {"", "a", "b", "abcd"}
Handles == -1 .. OftSlots
\* counts and positions at, just below and just above the block boundaries
AroundBlocks ==
    {b * BlockSize + o : b \in 0 .. MaxFileBlocks, o \in {-1, 0, 1}}
Counts == AroundBlocks \cap (0 .. (MaxFileSize + 1))
Positions == AroundBlocks \cap (-1 .. (MaxFileSize + 1))
\* the bytes of a write: pattern 0 is all zeros, the other patterns are
\* never 0 and differ at every offset
Source(count, k) == [i \in 0 .. (count - 1) |-> IF k = 0 THEN 0 ELSE 32 * k + i + 1]

TakeStep(r, st) ==
    /\ steps < MaxSteps
    /\ steps' = steps + 1
    /\ bitmap' = r.fs.bitmap
    /\ descriptors' = r.fs.descriptors
    /\ directory' = r.fs.directory
    /\ oft' = r.fs.oft
    /\ disk' = r.fs.disk
    /\ alias' = r.fs.alias
    /\ stale' = st

Init ==
    /\ bitmap = InitFS.bitmap
    /\ descriptors = InitFS.descriptors
    /\ directory = InitFS.directory
    /\ oft = InitFS.oft
    /\ disk = InitFS.disk
    /\ alias = InitFS.alias
    /\ stale = {}
    /\ steps = 0

Create(filename) == TakeStep(create(FS, filename), stale)

\* the open slots left bound to the descriptor a destroy frees
stale_after_destroy(fs, filename) ==
    IF dir_scan(fs, filename) = -1 \/ dir_scan_raises(fs, filename) THEN {}
    ELSE {h \in DOMAIN fs.oft :
             /\ fs.oft[h].current_pos # ClosedPos
             /\ fs.oft[h].descriptor_index = fs.directory[dir_scan(fs, filename)].desc}

Destroy(filename) ==
    TakeStep(destroy(FS, filename), stale \cup stale_after_destroy(FS, filename))

Open(filename) ==
    LET r == open(FS, filename)
    IN TakeStep(r, IF r.ret >= 0 THEN stale \ {r.ret} ELSE stale)

Close(index) ==
    LET r == close(FS, index)
    IN TakeStep(r, IF r.ret = 0 THEN stale \ {index} ELSE stale)

Read(index, count) == TakeStep(read(FS, index, count), stale)

Write(index, count, k) == TakeStep(write(FS, index, Source(count, k), count), stale)

Seek(index, pos) == TakeStep(seek(FS, index, pos), stale)

Next ==
    \/ \E filename \in Names : Create(filename)
    \/ \E filename \in Names : Destroy(filename)
    \/ \E filename \in Names : Open(filename)
    \/ \E index \in Handles : Close(index)
    \/ \E index \in Handles, count \in Counts : Read(index, count)
    \/ \E index \in Handles, count \in Counts, k \in 0 .. NumPatterns : Write(index, count, k)
    \/ \E index \in Handles, pos \in Positions : Seek(index, pos)

Spec == Init /\ [][Next]_vars

---------------------------------------------------------------------------
(* Properties                                                              *)

Max2(a, b) == IF a >= b THEN a ELSE b
Min2(a, b) == IF a <= b THEN a ELSE b

\* the names a file can have: create refuses the others
FileNames == {name \in Names : Len(name) >= 1 /\ Len(name) <= MaxNameLen}

\* the directory cell of the file with this name, or -1
FileEntry(fs, name) ==
    LET hits == {i \in DOMAIN fs.directory :
                    ~fs.directory[i].isint /\ fs.directory[i].name = name}
    IN IF name \in FileNames /\ hits # {} THEN Min(hits) ELSE -1

Free(descriptor) == descriptor[1] = FreeLength
BlockFields == 2 .. (1 + MaxFileBlocks)
Allocated(descriptor) == {k \in BlockFields : descriptor[k] # 0}
OpenSlot(fs, h) == fs.oft[h].current_pos # ClosedPos
OpenHandles(fs) == {h \in DOMAIN fs.oft : OpenSlot(fs, h)}
FreeBlocks(fs) == {b \in DataBlocks : fs.bitmap[b] = 0}

\* slot h is open on a file of the directory that was not destroyed since
\* the slot was opened
OnFile(fs, st, h) ==
    /\ OpenSlot(fs, h)
    /\ h \notin st
    /\ \E name \in FileNames :
           /\ FileEntry(fs, name) # -1
           /\ fs.directory[FileEntry(fs, name)].desc = fs.oft[h].descriptor_index

\* C1: the number of bitmap bits that are 1 is 8 plus the number of data
\* block references held by the non-free descriptors, and no data block is
\* marked used while no non-free descriptor refers to it.
CapacityInvariant ==
    LET refs == {<<d, k>> \in (DOMAIN descriptors) \X BlockFields :
                    ~Free(descriptors[d]) /\ descriptors[d][k] >= FirstDataBlock}
    IN /\ Cardinality({i \in DOMAIN bitmap : bitmap[i] = 1}) = FirstDataBlock + Cardinality(refs)
       /\ \A b \in DataBlocks :
              bitmap[b] = 1 => \E r \in refs : descriptors[r[1]][r[2]] = b

\* create(f); open(f) -> h; write(h, bytes, n); close(h); open(f) -> h2;
\* read(h2, buf, n): every step succeeds and buf holds the bytes written
RoundTripFrom(fs, f, n, k) ==
    LET c == create(fs, f)
        o == open(c.fs, f)
        w == write(o.fs, o.ret, Source(n, k), n)
        cl == close(w.fs, o.ret)
        o2 == open(cl.fs, f)
        rd == read(o2.fs, o2.ret, n)
    IN /\ c.ret = 0
       /\ o.ret >= 1
       /\ w.ret = n
       /\ cl.ret = 0
       /\ o2.ret >= 1
       /\ rd.ret = n
       /\ \A i \in 1 .. n : rd.dest[i] = Source(n, k)[i - 1]

\* C2: on a freshly initialised file system, for every n from 1 to three
\* blocks, writing n bytes to a new file, closing it, opening it again and
\* reading n bytes succeeds at every step and reads back the bytes written.
RoundTrip ==
    FS = InitFS =>
        \A f \in FileNames, n \in 1 .. MaxFileSize, k \in 1 .. NumPatterns : RoundTripFrom(FS, f, n, k)

\* C3: no descriptor index is bound to more than one open slot of the open
\* file table.
AtMostOneOpen ==
    \A d \in DOMAIN descriptors :
        Cardinality({h \in OpenHandles(FS) : oft[h].descriptor_index = d}) <= 1

\* a file was destroyed while slot h >= 1 was open on it, a later create took
\* its descriptor index, and the slot is still open
ReusedWhileOpen ==
    \E h \in stale \ {0}, name \in FileNames :
        /\ OpenSlot(FS, h)
        /\ FileEntry(FS, name) # -1
        /\ directory[FileEntry(FS, name)].desc = oft[h].descriptor_index

BlocksFor(count) ==
    Max2(1, (Min2(count, MaxFileSize) + BlockSize - 1) \div BlockSize)

\* C5: a write of count bytes at cursor 0 of a file just created and opened
\* returns min(count, 3 blocks) when enough data blocks are free, and leaves
\* the descriptor with max(1, ceil(min(count, 3 blocks) / block)) block
\* fields allocated and the length at the number of bytes written.
BlockCrossing ==
    \A h \in 1 .. (OftSlots - 1), name \in FileNames :
        LET d == oft[h].descriptor_index
        IN (/\ OnFile(FS, stale, h)
            /\ oft[h].current_pos = 0
            /\ FileEntry(FS, name) # -1
            /\ directory[FileEntry(FS, name)].desc = d
            /\ descriptors[d][1] = 0
            /\ Allocated(descriptors[d]) = {2}) =>
               \A count \in Counts, k \in 1 .. NumPatterns :
                   Cardinality(FreeBlocks(FS)) >= BlocksFor(count) - 1 =>
                       LET w == write(FS, h, Source(count, k), count)
                       IN /\ w.ret = Min2(count, MaxFileSize)
                          /\ Cardinality(Allocated(w.fs.descriptors[d])) = BlocksFor(count)
                          /\ w.fs.descriptors[d][1] = Min2(count, MaxFileSize)

\* C6: a successful create takes the lowest free data block and the lowest
\* free descriptor; a destroy of the same name right after it restores the
\* bitmap, the descriptor table and the directory, and a create that follows
\* gets the same block and descriptor.
LowestFreeReuse ==
    \A f \in Names :
        LET c == create(FS, f)
        IN c.ret = 0 =>
               LET d == c.fs.directory[FileEntry(c.fs, f)].desc
                   blk == c.fs.descriptors[d][2]
                   des == destroy(c.fs, f)
               IN /\ blk \in FreeBlocks(FS) /\ \A b \in FreeBlocks(FS) : blk <= b
                  /\ Free(descriptors[d])
                  /\ \A e \in DOMAIN descriptors : Free(descriptors[e]) => d <= e
                  /\ des.ret = 0
                  /\ des.fs.bitmap = bitmap
                  /\ des.fs.descriptors = descriptors
                  /\ des.fs.directory = directory
                  /\ \A g \in Names :
                         LET c2 == create(des.fs, g)
                         IN c2.ret = 0 =>
                                /\ c2.fs.directory[FileEntry(c2.fs, g)].desc = d
                                /\ c2.fs.descriptors[d] = <<0, blk, 0, 0>>

\* a destroy has left a free data block below a used one and a free
\* descriptor below a used one, and a create succeeds
CreateIntoHole ==
    /\ \E b \in FreeBlocks(FS) : \E u \in DataBlocks : b < u /\ bitmap[u] = 1
    /\ \E d \in DOMAIN descriptors : \E u \in DOMAIN descriptors :
           d >= 1 /\ d < u /\ Free(descriptors[d]) /\ ~Free(descriptors[u])
    /\ \E f \in FileNames : create(FS, f).ret = 0

\* C7: if a write through a slot h >= 1 open on a file not destroyed since
\* returns r >= 1 from cursor p, then seek(h, p) returns p and read(h, r)
\* returns r and the first r bytes written.
WriteSeekRead ==
    \A index \in 1 .. (OftSlots - 1), count \in Counts, k \in 1 .. NumPatterns :
        OnFile(FS, stale, index) =>
            LET p == oft[index].current_pos
                w == write(FS, index, Source(count, k), count)
                sk == seek(w.fs, index, p)
                rd == read(sk.fs, index, w.ret)
            IN (w.exc = "none" /\ w.ret >= 1) =>
                   /\ sk.ret = p
                   /\ rd.ret = w.ret
                   /\ \A i \in 1 .. w.ret : rd.dest[i] = Source(count, k)[i - 1]

\* the conditions under which create is to return failure
CreateRefused(fs, name) ==
    \/ Len(name) > MaxNameLen
    \/ \E i \in DOMAIN fs.directory : ~fs.directory[i].isint /\ fs.directory[i].name = name
    \/ ~\E i \in DOMAIN fs.directory : ~fs.directory[i].isint /\ fs.directory[i].name = ""
    \/ ~\E d \in DOMAIN fs.descriptors : Free(fs.descriptors[d])
    \/ FreeBlocks(fs) = {}

\* C8: create returns failure exactly when the name is longer than 3, an
\* entry with the name exists, or no directory slot, descriptor or data block
\* is free; a failing create changes nothing; a successful create adds one
\* directory entry name -> d, sets descriptor d to length 0 with the newly
\* marked block as its only block, and marks that one block used.
CreateContract ==
    \A name \in Names :
        LET r == create(FS, name)
        IN /\ r.ret = -1 <=> CreateRefused(FS, name)
           /\ r.ret = -1 => r.fs = FS
           /\ r.ret = 0 =>
                  \E i \in DOMAIN directory, d \in DOMAIN descriptors, b \in DataBlocks :
                      /\ directory[i] = DirEntry("", 0)
                      /\ r.fs.directory = [directory EXCEPT ![i] = DirEntry(name, d)]
                      /\ Free(descriptors[d])
                      /\ r.fs.descriptors = [descriptors EXCEPT ![d] = <<0, b, 0, 0>>]
                      /\ bitmap[b] = 0
                      /\ r.fs.bitmap = [bitmap EXCEPT ![b] = 1]
                      /\ r.fs.oft = oft /\ r.fs.disk = disk

\* C9: for a name of length 0 to 3, destroy returns failure and changes
\* nothing when no file has the name; otherwise it returns success, clears
\* the directory entry, frees the descriptor, clears the bitmap bit of each
\* of its blocks and changes no other directory entry, descriptor or bit.
DestroyContract ==
    \A name \in {f \in Names : Len(f) <= MaxNameLen} :
        LET r == destroy(FS, name)
        IN IF FileEntry(FS, name) = -1
           THEN r.ret = -1 /\ r.fs = FS
           ELSE LET i == FileEntry(FS, name)
                    d == directory[i].desc
                    blocks == {descriptors[d][k] : k \in Allocated(descriptors[d])}
                IN /\ r.ret = 0
                   /\ r.fs.directory = [directory EXCEPT ![i] = DirEntry("", 0)]
                   /\ r.fs.descriptors = [descriptors EXCEPT ![d] = <<FreeLength, 0, 0, 0>>]
                   /\ r.fs.bitmap = [b \in DOMAIN bitmap |-> IF b \in blocks THEN 0 ELSE bitmap[b]]

\* the conditions under which open is to return failure
OpenRefused(fs, name) ==
    \/ FileEntry(fs, name) = -1
    \/ \E h \in OpenHandles(fs) :
           fs.oft[h].descriptor_index = fs.directory[FileEntry(fs, name)].desc
    \/ \A h \in 1 .. (OftSlots - 1) : OpenSlot(fs, h)

\* C10: open returns failure and changes nothing when no file has the name,
\* when its descriptor is bound to an open slot, or when slots 1 to 3 are all
\* open; otherwise it returns the lowest closed slot among 1 to 3, never 0,
\* with cursor 0, the cached size equal to the length and the first block in
\* the buffer, and changes no other slot, no disk block, no descriptor and
\* no bitmap bit.
OpenContract ==
    \A name \in Names :
        LET r == open(FS, name)
        IN IF OpenRefused(FS, name)
           THEN r.ret = -1 /\ r.fs = FS
           ELSE LET h == r.ret
                    d == directory[FileEntry(FS, name)].desc
                IN /\ h \in 1 .. (OftSlots - 1)
                   /\ ~OpenSlot(FS, h)
                   /\ \A g \in 1 .. (h - 1) : OpenSlot(FS, g)
                   /\ r.fs.oft[h].descriptor_index = d
                   /\ r.fs.oft[h].current_pos = 0
                   /\ r.fs.oft[h].file_size = descriptors[d][1]
                   /\ LocCells(r.fs, SlotLoc(h)) = LocCells(FS, descriptors[d][2])
                   /\ \A g \in (DOMAIN oft) \ {h} : r.fs.oft[g] = oft[g]
                   /\ r.fs.bitmap = bitmap /\ r.fs.descriptors = descriptors /\ r.fs.disk = disk

\* the names and handles the engine is meant to take
ShortNames == {f \in Names : Len(f) <= MaxNameLen}
TableSlots == 0 .. (OftSlots - 1)

\* C11: no call of create, destroy, open, close, read, write, seek or list
\* with a name of at most 3 characters and a handle in 0..3 raises; close on
\* an open handle returns success and leaves the slot closed, whatever the
\* cursor.
NoFaults ==
    /\ \A name \in ShortNames :
           /\ create(FS, name).exc = "none"
           /\ destroy(FS, name).exc = "none"
           /\ open(FS, name).exc = "none"
    /\ list_directory(FS).exc = "none"
    /\ \A h \in TableSlots :
           /\ close(FS, h).exc = "none"
           /\ OpenSlot(FS, h) => close(FS, h).ret = 0 /\ ~OpenSlot(close(FS, h).fs, h)
           /\ \A count \in Counts :
                  /\ read(FS, h, count).exc = "none"
                  /\ \A k \in 1 .. NumPatterns : write(FS, h, Source(count, k), count).exc = "none"
           /\ \A pos \in Positions : seek(FS, h, pos).exc = "none"

\* the byte of the file of descriptor d at offset o, as the data blocks of
\* the disk hold it
FileByte(fs, d, o) ==
    LocCells(fs, fs.descriptors[d][2 + (o \div BlockSize)])[o % BlockSize]

\* the disk, the descriptors, the bitmap and the directory of two states agree
SameStore(fs1, fs2) ==
    /\ \A b \in DataBlocks : LocCells(fs1, b) = LocCells(fs2, b)
    /\ fs1.descriptors = fs2.descriptors
    /\ fs1.bitmap = fs2.bitmap
    /\ fs1.directory = fs2.directory

\* C12: read on a slot h >= 1 open on a file not destroyed since, with
\* cursor c and length L, returns min(count, L - c), moves the cursor by as
\* much, stores the bytes of the file at offsets c.. in dest and changes no
\* disk block, descriptor, bitmap bit or directory entry; on a handle outside
\* 0..3 or a closed slot it returns failure and changes nothing.
ReadContract ==
    \A h \in Handles, count \in Counts :
        LET rd == read(FS, h, count)
        IN /\ (h \notin TableSlots \/ ~OpenSlot(FS, h)) => rd.ret = -1 /\ rd.fs = FS
           /\ (h \in 1 .. (OftSlots - 1) /\ OnFile(FS, stale, h)) =>
                  LET d == oft[h].descriptor_index
                      c == oft[h].current_pos
                      r == Min2(count, descriptors[d][1] - c)
                  IN /\ rd.exc = "none"
                     /\ rd.ret = r
                     /\ rd.fs.oft[h].current_pos = c + r
                     /\ \A i \in 1 .. r : rd.dest[i] = FileByte(FS, d, c + i - 1)
                     /\ SameStore(rd.fs, FS)

\* the conditions under which seek is to return failure
SeekRefused(fs, h, pos) ==
    \/ h \notin TableSlots
    \/ ~OpenSlot(fs, h)
    \/ pos < 0
    \/ pos > fs.descriptors[fs.oft[h].descriptor_index][1]
    \/ pos \div BlockSize >= MaxFileBlocks
    \/ fs.descriptors[fs.oft[h].descriptor_index][2 + (pos \div BlockSize)] = 0

\* C13: seek returns failure on a handle outside 0..3 or closed, on a
\* position below 0 or beyond the length, and on a position whose block index
\* is 3 or whose block field is 0; a failing seek changes nothing; a
\* successful seek returns pos, sets the cursor to pos and the buffer to the
\* content of the block that holds pos, and writes no disk block, descriptor
\* or bitmap bit.
SeekContract ==
    \A h \in Handles, pos \in Positions :
        LET sk == seek(FS, h, pos)
        IN IF SeekRefused(FS, h, pos)
           THEN sk.ret = -1 /\ sk.fs = FS
           ELSE LET d == oft[h].descriptor_index
                    blk == descriptors[d][2 + (pos \div BlockSize)]
                IN /\ sk.ret = pos
                   /\ sk.fs.oft[h].current_pos = pos
                   /\ LocCells(sk.fs, SlotLoc(h)) = LocCells(FS, blk)
                   /\ blk \in sk.fs.alias[SlotLoc(h)]
                   /\ SameStore(sk.fs, FS)
                   /\ \A g \in TableSlots \ {h} : sk.fs.oft[g] = oft[g]

\* a seek to the end of a file whose length is a whole block fails, and a
\* seek into the second block of a longer file succeeds
SeekAtBoundary ==
    \E h \in 1 .. (OftSlots - 1) :
        /\ OnFile(FS, stale, h)
        /\ \E g \in 1 .. (OftSlots - 1) :
               /\ OnFile(FS, stale, g)
               /\ descriptors[oft[g].descriptor_index][1] > BlockSize
               /\ seek(FS, g, BlockSize).ret = BlockSize
               /\ oft[g].current_pos < BlockSize
        /\ \/ descriptors[oft[h].descriptor_index][1] = BlockSize /\ seek(FS, h, BlockSize).ret = -1
           \/ seek(FS, h, descriptors[oft[h].descriptor_index][1] + 1).ret = -1

\* C14: slot 0 is open on descriptor 0 in every reachable state, descriptor 0
\* stays the descriptor of the directory (not free, first block 7), and open
\* never returns 0.
SlotZeroOpen ==
    /\ OpenSlot(FS, 0)
    /\ oft[0].descriptor_index = 0
    /\ ~Free(descriptors[0])
    /\ descriptors[0][2] = DirBlock
    /\ \A name \in Names : open(FS, name).ret # 0

\* C15: write puts a block into a descriptor field and marks a bitmap bit
\* only where the field was 0; a field that holds a block keeps it and the
\* bitmap stays as it was, also when a file of several blocks is overwritten.
LazyAllocation ==
    \A h \in 1 .. (OftSlots - 1), count \in Counts, k \in 1 .. NumPatterns :
        OnFile(FS, stale, h) =>
            LET d == oft[h].descriptor_index
                w == write(FS, h, Source(count, k), count)
            IN /\ \A j \in BlockFields :
                      descriptors[d][j] # 0 => w.fs.descriptors[d][j] = descriptors[d][j]
               /\ \A b \in 0 .. (NumBlocks - 1) :
                      w.fs.bitmap[b] # bitmap[b] =>
                          \E j \in BlockFields : descriptors[d][j] = 0 /\ w.fs.descriptors[d][j] = b

\* C16: bitmap bits 0..7 are 1 in every reachable state, and no descriptor
\* of a file holds a block index below 8.
ReservedBlocks ==
    /\ \A b \in 0 .. (FirstDataBlock - 1) : bitmap[b] = 1
    /\ \A d \in DOMAIN descriptors, j \in BlockFields :
           \/ descriptors[d][j] = 0
           \/ descriptors[d][j] >= FirstDataBlock
           \/ d = 0 /\ j = 2 /\ descriptors[d][j] = DirBlock

\* the directory entries that name a file
Occupied(fs) == {i \in DOMAIN fs.directory : ~fs.directory[i].isint /\ fs.directory[i].name # ""}

\* C17: the occupied directory entries and the non-free descriptors other
\* than descriptor 0 correspond one to one: every occupied entry names a
\* non-free descriptor of its own, no two occupied entries share a name, and
\* every non-free descriptor of index 1 or more is named by exactly one
\* occupied entry, also after a write through a handle whose file was
\* destroyed.
DirectoryConsistent ==
    /\ \A i \in Occupied(FS) : ~Free(descriptors[directory[i].desc])
    /\ \A i, j \in Occupied(FS) :
           i # j => /\ directory[i].desc # directory[j].desc
                    /\ directory[i].name # directory[j].name
    /\ \A d \in DOMAIN descriptors :
           (d >= 1 /\ ~Free(descriptors[d])) =>
               Cardinality({i \in Occupied(FS) : directory[i].desc = d}) = 1

\* C18: every open slot has 0 <= current_pos <= length of its descriptor and
\* current_pos <= three blocks, in every reachable state.
CursorRange ==
    \A h \in TableSlots :
        OpenSlot(FS, h) =>
            /\ 0 <= oft[h].current_pos
            /\ oft[h].current_pos <= descriptors[oft[h].descriptor_index][1]
            /\ oft[h].current_pos <= MaxFileSize

\* the first n bytes of the file of slot h, as seek to 0 and read return them
ReadBack(fs, h, n) == read(seek(fs, h, 0).fs, h, n)

\* C19: a write that returns r at cursor c changes the bytes of the file at
\* offsets c..c+r-1 only: every other byte at an offset below the old length
\* reads back as before, also when the written range runs into a second or
\* third block that was allocated already, and the bytes of every other file
\* stay as they were.
WriteLocal ==
    \A h \in 1 .. (OftSlots - 1), count \in Counts, k \in 1 .. NumPatterns :
        OnFile(FS, stale, h) =>
            LET d == oft[h].descriptor_index
                L == descriptors[d][1]
                c == oft[h].current_pos
                w == write(FS, h, Source(count, k), count)
                before == ReadBack(FS, h, L)
                after == ReadBack(w.fs, h, L)
            IN (w.exc = "none" /\ w.ret >= 0 /\ before.exc = "none" /\ before.ret = L) =>
                   /\ after.exc = "none"
                   /\ after.ret = L
                   /\ \A o \in 0 .. (L - 1) :
                          (o < c \/ o >= c + w.ret) => after.dest[o + 1] = before.dest[o + 1]
                   /\ \A e \in DOMAIN descriptors :
                          (e # d /\ e # 0 /\ ~Free(descriptors[e])) =>
                              /\ w.fs.descriptors[e] = descriptors[e]
                              /\ \A o \in 0 .. (descriptors[e][1] - 1) :
                                     descriptors[e][2 + (o \div BlockSize)] # 0 =>
                                         FileByte(w.fs, e, o) = FileByte(FS, e, o)

\* C20: open of an existing file, then seek and read calls, then close leave
\* every data block, every descriptor and the bitmap as they were before the
\* open, also when the cursor sits on a block boundary at the close.
ReadOnlySession ==
    \A name \in FileNames, pos \in Positions, count \in Counts :
        LET o == open(FS, name)
            sk == seek(o.fs, o.ret, pos)
            rd == read(sk.fs, o.ret, count)
            cl == close(rd.fs, o.ret)
        IN (FileEntry(FS, name) # -1 /\ o.exc = "none" /\ o.ret >= 1) =>
               /\ \A b \in DataBlocks : LocCells(cl.fs, b) = LocCells(FS, b)
               /\ cl.fs.descriptors = descriptors
               /\ cl.fs.bitmap = bitmap

\* the block fields of the non-free descriptors that hold a data block
DataRefs(fs) ==
    {<<d, j>> \in (DOMAIN fs.descriptors) \X BlockFields :
        ~Free(fs.descriptors[d]) /\ fs.descriptors[d][j] >= FirstDataBlock}

\* C21: in every reachable state no data block occurs in the block fields of
\* two non-free descriptors nor twice in one descriptor, every non-zero block
\* field of a non-free descriptor of index 1 or more is a data block, and
\* every data block a non-free descriptor holds is marked used in the bitmap.
NoSharedStorage ==
    /\ \A p, q \in DataRefs(FS) :
           p # q => descriptors[p[1]][p[2]] # descriptors[q[1]][q[2]]
    /\ \A d \in DOMAIN descriptors, j \in BlockFields :
           (d >= 1 /\ ~Free(descriptors[d]) /\ descriptors[d][j] # 0) =>
               descriptors[d][j] \in DataBlocks
    /\ \A p \in DataRefs(FS) : bitmap[descriptors[p[1]][p[2]]] # 0

====
